---- MODULE Spec2Model ----
(***************************************************************************)
(* EcoPackAI backend: the material recommendation engine                   *)
(* (backend/prediction.py) and the request handlers that call it           *)
(* (backend/main.py, backend/chatbot.py).                                  *)
(*                                                                         *)
(* Numbers.  The code computes in floating point; the model computes the   *)
(* same expressions exactly, in rationals.  Money and CO2 are integers.    *)
(* A weight is a fraction [n |-> numerator, d |-> denominator > 0].  The   *)
(* indices and scores of one call are numerators over one common           *)
(* denominator, the field den of every candidate: index = field / den.     *)
(***************************************************************************)
EXTENDS Integers, Sequences, FiniteSets, TLC

VARIABLES
    manifest_exists,    \* models/model_manifest.json is on disk
    model_files_exist,  \* both .joblib files named by the manifest are on disk
    materials_source,   \* the materials table / CSV: Some(catalog), or None (missing)
    _cost_model,        \* module global: None or Some("pipeline")
    _co2_model,         \* module global: None or Some("pipeline")
    _materials_raw,     \* module global: None or Some(the loaded catalog)
    user,               \* the AppUser row of the caller: weight_co2/cost/risk
    request,            \* the last call made, with the predictor's outputs
    response,           \* its outcome
    previous,           \* the call before it: None, or Some([request, response])
    pc,                 \* where each request thread stands in load_models
    loads,              \* how many times each handle has been assigned
    gemini_limiter,     \* app.py's module global: the GeminiRateLimiter object
    clock,              \* what time.time() returns, in seconds
    callers,            \* where each thread stands in wait_if_needed
    returned            \* the times at which wait_if_needed returned, in order

limiterVars == <<gemini_limiter, clock, callers, returned>>

vars == <<manifest_exists, model_files_exist, materials_source,
          _cost_model, _co2_model, _materials_raw, user, request, response,
          previous, pc, loads, limiterVars>>

\* Python's optional values: None, or Some(v) holding v.
None == <<>>
Some(v) == <<v>>
The(o) == o[1]

\* ---------------------------------------------------------------- bounds

\* Longest catalog of the engine and service specifications.
MaxCatalog == 2
\* Longest catalog of the truncation specification (more rows than results[:5] keeps).
MaxLongCatalog == 6
MaxRaiseCatalog == 3
NumThreads == 2
\* The limits the rate limiter is constructed with, and how far and in which
\* steps the clock runs.
Rpm == 2
Rpd == 4
MaxClock == 80
Step == 20

\* ------------------------------------------------------- program constants

TopN == 5                   \* results[:5]
HugeBudget == 1000000000    \* product.get("maxBudget", 1e9)
DefaultBudget == 10         \* product.get("maxBudget", 10.0)
DefaultWeightKg == 1        \* product.get("weightKg", 1.0)
DefaultRequirement == 5     \* product.get("fragility" | "moistureReq" | "oxygenSensitivity", 5)

\* float("nan"): the one value that is not a number.  Every operator on floats
\* tests for it before it computes or compares.
NaN == -2147483647

\* ------------------------------------------------------------- arithmetic

Max(a, b) == IF a >= b THEN a ELSE b
Min(a, b) == IF a <= b THEN a ELSE b
Abs(a) == IF a < 0 THEN -a ELSE a

RECURSIVE GCD(_, _)
GCD(a, b) == IF b = 0 THEN Abs(a) ELSE GCD(Abs(b), Abs(a) % Abs(b))

\* Series.clip(lo, hi) on a numerator
Clip(v, lo, hi) == Max(lo, Min(hi, v))

\* a <= b and a < b on floats: False when either is NaN.
AtMost(a, b) == a # NaN /\ b # NaN /\ a <= b
Less(a, b) == a # NaN /\ b # NaN /\ a < b

\* Python's min(a, b) and max(a, b): the first argument unless the second is
\* less (greater), so a NaN second argument is never returned.
PyMin(a, b) == IF Less(b, a) THEN b ELSE a
PyMax(a, b) == IF Less(a, b) THEN b ELSE a

\* a * k on floats
Times(a, k) == IF a = NaN THEN NaN ELSE a * k

\* The members of s that are numbers.
Numbers(s) == {s[i] : i \in DOMAIN s} \ {NaN}

MinOf(S) == IF S = {} THEN NaN ELSE CHOOSE m \in S : \A n \in S : m <= n
MaxOf(S) == IF S = {} THEN NaN ELSE CHOOSE m \in S : \A n \in S : m >= n

\* Series.min() and Series.max(): NaN members are skipped, and the result is NaN
\* when no member is left.
SeqMin(s) == MinOf(Numbers(s))
SeqMax(s) == MaxOf(Numbers(s))

\* s with v inserted before the first element greater than v (s ascending)
RECURSIVE InsertAsc(_, _)
InsertAsc(s, v) ==
    IF s = <<>> THEN <<v>>
    ELSE IF v < Head(s) THEN <<v>> \o s
    ELSE <<Head(s)>> \o InsertAsc(Tail(s), v)

RECURSIVE SortAsc(_)
SortAsc(s) == IF s = <<>> THEN <<>> ELSE InsertAsc(SortAsc(Tail(s)), Head(s))

\* np.maximum(pred.astype(float), 0.0)
ClampNonNeg(pred) ==
    [i \in DOMAIN pred |-> IF pred[i] = NaN THEN NaN ELSE Max(pred[i], 0)]

\* Twice the median of a sorted non-empty array: the middle element, or the mean
\* of the two middle elements.
MiddleTwice(s) ==
    IF Len(s) % 2 = 1 THEN 2 * s[(Len(s) + 1) \div 2]
    ELSE s[Len(s) \div 2] + s[Len(s) \div 2 + 1]

\* Twice np.median(values): NaN when a value is NaN
Median2(values) ==
    IF Numbers(values) # {values[i] : i \in DOMAIN values} THEN NaN
    ELSE MiddleTwice(SortAsc(values))

\* ------------------------------------------------------------ _minmax

\* A mutation of Normalised: a constant series is normalised to 0.
Normalised_ZeroWhenFlat(series, mn, mx) ==
    IF mn = NaN \/ mx = NaN \/ mn = mx
    THEN [num |-> [i \in DOMAIN series |-> 0], den |-> 1]
    ELSE [num |-> [i \in DOMAIN series |->
                     IF series[i] = NaN THEN NaN ELSE series[i] - mn],
          den |-> mx - mn]

\* 0.5 for every member when the series has no number (it is empty, or NaN
\* throughout) or its numbers are one value, else (s - mn) / (mx - mn), which is
\* NaN for a NaN member.  The result is [num, den]: member i is num[i] / den.
Normalised(series, mn, mx) ==
    IF mn = NaN \/ mx = NaN \/ mn = mx
    THEN [num |-> [i \in DOMAIN series |-> 1], den |-> 2]
    ELSE [num |-> [i \in DOMAIN series |->
                     IF series[i] = NaN THEN NaN ELSE series[i] - mn],
          den |-> mx - mn]

_minmax(series) == Normalised(series, SeqMin(series), SeqMax(series))

\* A mutation of Inverted: mm * 100, the index growing with the series.
Inverted_Direct(mm) ==
    [num |-> [i \in DOMAIN mm.num |-> Times(mm.num[i], 100)], den |-> mm.den]

\* (1 - mm) * 100, over the same denominator
Inverted(mm) ==
    [num |-> [i \in DOMAIN mm.num |->
                IF mm.num[i] = NaN THEN NaN ELSE 100 * (mm.den - mm.num[i])],
     den |-> mm.den]

\* (1 - _minmax(series)) * 100
IndexOf(series) == Inverted(_minmax(series))

\* ------------------------------------------------ weight resolution

DefaultCo2Weight == [n |-> 50, d |-> 100]     \* 0.50
DefaultCostWeight == [n |-> 35, d |-> 100]    \* 0.35

\* dict.get(key, default) on a dict modelled as a function
Get(dict, key, default) == IF key \in DOMAIN dict THEN dict[key] ELSE default

\* A mutation of ClampWeight: the negative weight is kept.
ClampWeight_Kept(n) == n

\* if w < 0: w = 0.0   (on a numerator over a positive denominator)
ClampWeight(n) == IF n < 0 THEN 0 ELSE n

\* w_co2 = c and w_cost = k over their common denominator, negative values
\* clamped when the caller gave a dict.
Clamped(weights, c, k) ==
    IF weights = None
    THEN [co2 |-> c.n * k.d, cost |-> k.n * c.d, den |-> c.d * k.d]
    ELSE [co2 |-> ClampWeight(c.n * k.d), cost |-> ClampWeight(k.n * c.d),
          den |-> c.d * k.d]

\* A mutation of Rescaled: only w_co2 is divided by the total.
Rescaled_Co2Only(weights, w) ==
    IF weights # None /\ w.co2 + w.cost > w.den
    THEN [co2 |-> w.co2 * w.den, cost |-> w.cost * (w.co2 + w.cost),
          den |-> w.den * (w.co2 + w.cost)]
    ELSE w

\* total = w_co2 + w_cost; if total > 1.0: w_co2 /= total; w_cost /= total
Rescaled(weights, w) ==
    IF weights # None /\ w.co2 + w.cost > w.den
    THEN [w EXCEPT !.den = w.co2 + w.cost]
    ELSE w

\* w_risk = 1.0 - (w_co2 + w_cost); if w_risk < 0: w_risk = 0.0 and, the total
\* being positive, w_co2 and w_cost are divided by it.
WithRisk(w) ==
    IF w.den - (w.co2 + w.cost) < 0
    THEN [co2 |-> w.co2, cost |-> w.cost, risk |-> 0,
          den |-> IF w.co2 + w.cost > 0 THEN w.co2 + w.cost ELSE w.den]
    ELSE [co2 |-> w.co2, cost |-> w.cost, risk |-> w.den - (w.co2 + w.cost),
          den |-> w.den]

\* The same three fractions over the denominator divided by g.
ReducedBy(w, g) ==
    [co2 |-> w.co2 \div g, cost |-> w.cost \div g, risk |-> w.risk \div g,
     den |-> w.den \div g]

Reduced(w) == ReducedBy(w, GCD(GCD(w.co2, w.cost), GCD(w.risk, w.den)))

\* The weighting of _compute_indices_and_scores: [co2, cost, risk, den], the three
\* weights being co2/den, cost/den and risk/den.
ResolveWeights(weights) ==
    Reduced(WithRisk(Rescaled(weights,
        Clamped(weights,
                IF weights = None THEN DefaultCo2Weight
                ELSE Get(The(weights), "co2", DefaultCo2Weight),
                IF weights = None THEN DefaultCostWeight
                ELSE Get(The(weights), "cost", DefaultCostWeight)))))

\* ------------------------------------------- _compute_indices_and_scores

\* 25*strength + 20*moisture + 20*oxygen + 25*over_budget
Penalty(m) ==
    25 * m.is_strength_insufficient + 20 * m.is_moisture_insufficient
    + 20 * m.is_oxygen_insufficient + 25 * m.is_over_budget

\* A mutation of Base: the risk component is 100 whatever the strength flag.
Base_FullRisk(m, cin, oin, cid, oid, w) ==
    IF cin = NaN \/ oin = NaN THEN NaN
    ELSE w.co2 * oin * cid + w.cost * cin * oid + w.risk * 100 * cid * oid

\* w_co2 * CO2ImpactIndex + w_cost * CostEfficiencyIndex
\* + w_risk * (100 - 25 * is_strength_insufficient), over w.den * cid * oid.
\* cin/cid is the cost index of the row and oin/oid its CO2 index.
Base(m, cin, oin, cid, oid, w) ==
    IF cin = NaN \/ oin = NaN THEN NaN
    ELSE w.co2 * oin * cid + w.cost * cin * oid
         + w.risk * (100 - 25 * m.is_strength_insufficient) * cid * oid

\* A mutation of SuitabilityScore: the final clip to [0, 100] is missing.
SuitabilityScore_NoClip(base, penalty, d1) ==
    IF base = NaN THEN NaN ELSE Clip(base, 0, 100 * d1) - penalty * d1

\* MaterialSuitabilityScore over d1: the weighted base clipped to [0, 100], minus
\* the penalty, clipped to [0, 100] again; clip leaves NaN as it is.
SuitabilityScore(base, penalty, d1) ==
    IF base = NaN THEN NaN
    ELSE Clip(Clip(base, 0, 100 * d1) - penalty * d1, 0, 100 * d1)

\* A mutation of RankingOf: 0.20 * suitability + 0.40 * CO2ImpactIndex
\* + 0.40 * CostEfficiencyIndex.
RankingOf_Light(suit, cin, oin, cid, oid, w) ==
    IF suit = NaN \/ cin = NaN \/ oin = NaN THEN NaN
    ELSE Clip(suit + 2 * oin * w.den * cid + 2 * cin * w.den * oid,
              0, 100 * 5 * w.den * cid * oid)

\* RankingScore over 5 * d1, suit being the suitability over d1:
\* (0.60 * suitability + 0.20 * CO2ImpactIndex + 0.20 * CostEfficiencyIndex).clip(0, 100)
RankingOf(suit, cin, oin, cid, oid, w) ==
    IF suit = NaN \/ cin = NaN \/ oin = NaN THEN NaN
    ELSE Clip(3 * suit + oin * w.den * cid + cin * w.den * oid,
              0, 100 * 5 * w.den * cid * oid)

\* The scored row; every index and score is a numerator over den.
Scored(m, cost, co2, cin, oin, cid, oid, w, suit) ==
    [material |-> m,
     predicted_cost_unit_usd |-> cost,
     predicted_co2_unit_kg |-> co2,
     CostEfficiencyIndex |-> Times(cin, 5 * w.den * oid),
     CO2ImpactIndex |-> Times(oin, 5 * w.den * cid),
     MaterialSuitabilityScore |-> Times(suit, 5),
     RankingScore |-> RankingOf(suit, cin, oin, cid, oid, w),
     den |-> 5 * w.den * cid * oid]

ScoreRow(m, cost, co2, cin, oin, cid, oid, w) ==
    Scored(m, cost, co2, cin, oin, cid, oid, w,
           SuitabilityScore(Base(m, cin, oin, cid, oid, w), Penalty(m),
                            w.den * cid * oid))

\* cost and co2 are the clamped predictions, ci and oi their indices, w the
\* resolved weights.
ScoreRows(materials, cost, co2, ci, oi, w) ==
    [i \in DOMAIN materials |->
        ScoreRow(materials[i], cost[i], co2[i], ci.num[i], oi.num[i],
                 ci.den, oi.den, w)]

\* One scored row per material.
_compute_indices_and_scores(materials, pred_cost, pred_co2, weights) ==
    ScoreRows(materials, ClampNonNeg(pred_cost), ClampNonNeg(pred_co2),
              IndexOf(ClampNonNeg(pred_cost)), IndexOf(ClampNonNeg(pred_co2)),
              ResolveWeights(weights))

\* ------------------------------------------------------- _build_reason

\* A mutation of ReasonTags: the strength tag is appended before the budget tag.
ReasonTags_StrengthFirst(row) ==
    (IF AtMost(70 * row.den, row.CO2ImpactIndex)
     THEN <<"Low CO2 footprint">> ELSE <<>>)
    \o (IF AtMost(70 * row.den, row.CostEfficiencyIndex)
        THEN <<"Cost efficient">> ELSE <<>>)
    \o (IF row.material.is_strength_insufficient = 1
        THEN <<"Strength may be insufficient">> ELSE <<>>)
    \o (IF row.material.is_over_budget = 1 THEN <<"Over budget">> ELSE <<>>)

\* The tags of the short reason, in the order the code appends them.
ReasonTags(row) ==
    (IF AtMost(70 * row.den, row.CO2ImpactIndex)
     THEN <<"Low CO2 footprint">> ELSE <<>>)
    \o (IF AtMost(70 * row.den, row.CostEfficiencyIndex)
        THEN <<"Cost efficient">> ELSE <<>>)
    \o (IF row.material.is_over_budget = 1 THEN <<"Over budget">> ELSE <<>>)
    \o (IF row.material.is_strength_insufficient = 1
        THEN <<"Strength may be insufficient">> ELSE <<>>)

\* ", ".join(tags) if tags else the default phrase
JoinOrDefault(tags) ==
    IF tags # <<>> THEN tags ELSE <<"Optimised for sustainability and cost.">>

_build_reason(row) == JoinOrDefault(ReasonTags(row))

\* ------------------------------------------ _build_detailed_explanation

\* Which sentence is written for a gap: the one for gap >= 0 or the other.
GapSentence(gap) == IF gap >= 0 THEN "meets" ELSE "below"

\* The sentence chosen under each key of the explanation.  The catalog has no
\* Biodegradable or Recyclable column, so the sustainability sentence is the
\* fallback one.
_build_detailed_explanation(row) ==
    [cost |-> IF row.material.budget_gap >= 0 THEN "within" ELSE "exceeds",
     co2 |-> IF AtMost(70 * row.den, row.CO2ImpactIndex) THEN "low"
             ELSE IF AtMost(row.CO2ImpactIndex, 40 * row.den) THEN "high"
             ELSE "moderate",
     strength |-> GapSentence(row.material.strength_gap),
     moisture |-> GapSentence(row.material.moisture_gap),
     oxygen |-> GapSentence(row.material.oxygen_gap),
     sustainability |-> IF AtMost(70 * row.den, row.CO2ImpactIndex) THEN "strong"
                        ELSE "none"]

\* ------------------------------------------------------------ recommend

\* cost within the budget and CO2 at most the threshold (twice the threshold given)
BothMask(cost_values, co2_values, max_budget, co2_threshold2) ==
    [i \in DOMAIN cost_values |->
        /\ AtMost(cost_values[i], max_budget)
        /\ AtMost(Times(co2_values[i], 2), co2_threshold2)]

\* A mutation of Relaxed: the fallback drops the budget too.
Relaxed_NoBudget(both, cost_values, max_budget) ==
    IF \E i \in DOMAIN both : both[i] THEN both
    ELSE [i \in DOMAIN cost_values |-> TRUE]

\* A mutation of Relaxed: no fallback.
Relaxed_Never(both, cost_values, max_budget) == both

\* A mutation of Relaxed: the budget-only mask is always used.
Relaxed_Always(both, cost_values, max_budget) ==
    [i \in DOMAIN cost_values |-> AtMost(cost_values[i], max_budget)]

\* if not valid_mask.any(): valid_mask = cost_values <= max_budget
Relaxed(both, cost_values, max_budget) ==
    IF \E i \in DOMAIN both : both[i] THEN both
    ELSE [i \in DOMAIN cost_values |-> AtMost(cost_values[i], max_budget)]

\* valid_mask: cost within the budget and CO2 at most the median of the whole
\* catalog; if no row passes both, cost within the budget alone.
ValidMask(cost_values, co2_values, max_budget) ==
    Relaxed(BothMask(cost_values, co2_values, max_budget, Median2(co2_values)),
            cost_values, max_budget)

\* The positions i <= n where mask holds, ascending: frame[valid_mask] keeps the
\* catalog's order and its index labels.
RECURSIVE Kept(_, _)
Kept(mask, n) ==
    IF n = 0 THEN <<>>
    ELSE IF mask[n] THEN Append(Kept(mask, n - 1), n) ELSE Kept(mask, n - 1)

\* (gap < 0).astype(int): a NaN gap compares False
Negative(gap) == IF Less(gap, 0) THEN 1 ELSE 0

\* The frame has column c: every row of a DataFrame has the same columns.
HasColumn(materials, c) == \A i \in DOMAIN materials : c \in DOMAIN materials[i]

\* scored.get(c, 0), at one row: the cell (pd.to_numeric(errors="coerce") has made
\* NaN of a cell that is not a number), or the scalar 0 when the frame has no
\* column c.
Column(m, c) == IF c \in DOMAIN m THEN m[c] ELSE 0

\* a - b of floats
Minus(a, b) == IF a = NaN \/ b = NaN THEN NaN ELSE a - b

\* .fillna(0), at one row
FillZero(v) == IF v = NaN THEN 0 ELSE v

\* One row of the scoring frame: the material (index is its label in the
\* catalog), the gaps against the product's raw fields and the four flags.
ScoredRow(m, index, product) ==
    [index |-> index,
     MaterialName |-> m.MaterialName,
     strength_gap |-> Minus(Column(m, "StrengthRating"),
                            Get(product, "fragility", DefaultRequirement)),
     moisture_gap |-> Minus(Column(m, "MoistureBarrier"),
                            Get(product, "moistureReq", DefaultRequirement)),
     oxygen_gap |-> Minus(Column(m, "OxygenBarrier"),
                          Get(product, "oxygenSensitivity", DefaultRequirement)),
     budget_gap |-> Get(product, "maxBudget", DefaultBudget)
                    - FillZero(m.CostPerKG_USD)
                      * Get(product, "weightKg", DefaultWeightKg),
     is_strength_insufficient |->
        Negative(Minus(Column(m, "StrengthRating"),
                       Get(product, "fragility", DefaultRequirement))),
     is_moisture_insufficient |->
        Negative(Minus(Column(m, "MoistureBarrier"),
                       Get(product, "moistureReq", DefaultRequirement))),
     is_oxygen_insufficient |->
        Negative(Minus(Column(m, "OxygenBarrier"),
                       Get(product, "oxygenSensitivity", DefaultRequirement))),
     is_over_budget |->
        Negative(Get(product, "maxBudget", DefaultBudget)
                 - FillZero(m.CostPerKG_USD)
                   * Get(product, "weightKg", DefaultWeightKg))]

\* q + r2 / (2 * d) rounded to the nearest integer, a half to the even one.
HalfEven(q, r2, d) ==
    IF r2 < d THEN q
    ELSE IF r2 > d THEN q + 1
    ELSE IF q % 2 = 0 THEN q ELSE q + 1

\* A mutation of Round1: the digits after the first decimal are cut off.
Round1_Floor(n, d) == (10 * n) \div d

\* round(n / d, 1), in tenths (n >= 0, d > 0)
Round1(n, d) == HalfEven((10 * n) \div d, 2 * ((10 * n) % d), d)

\* A mutation of ResultEntry: the suitability is emitted as the ranking score.
ResultEntry_SuitabilityAsRanking(row) ==
    [materialName |-> row.material.MaterialName,
     index |-> row.material.index,
     rankingScore |-> row.MaterialSuitabilityScore,
     suitabilityScore |-> row.MaterialSuitabilityScore,
     predictedCost |-> row.predicted_cost_unit_usd,
     predictedCO2 |-> row.predicted_co2_unit_kg,
     reason |-> _build_reason(row),
     explanation |-> _build_detailed_explanation(row),
     confidenceScore |->
        Round1(PyMax(0, PyMin(100 * row.den, row.MaterialSuitabilityScore)),
               row.den),
     co2ImpactIndex |-> row.CO2ImpactIndex,
     costEfficiencyIndex |-> row.CostEfficiencyIndex,
     den |-> row.den]

\* The dict appended to results for one scored row.
ResultEntry(row) ==
    [materialName |-> row.material.MaterialName,
     index |-> row.material.index,
     rankingScore |-> row.RankingScore,
     suitabilityScore |-> row.MaterialSuitabilityScore,
     predictedCost |-> row.predicted_cost_unit_usd,
     predictedCO2 |-> row.predicted_co2_unit_kg,
     reason |-> _build_reason(row),
     explanation |-> _build_detailed_explanation(row),
     confidenceScore |->
        Round1(PyMax(0, PyMin(100 * row.den, row.MaterialSuitabilityScore)),
               row.den),
     co2ImpactIndex |-> row.CO2ImpactIndex,
     costEfficiencyIndex |-> row.CostEfficiencyIndex,
     den |-> row.den]

\* A mutation of InsertByRanking: ascending order.
RECURSIVE InsertByRanking_Ascending(_, _)
InsertByRanking_Ascending(sorted, e) ==
    IF sorted = <<>> THEN <<e>>
    ELSE IF Less(e.rankingScore, Head(sorted).rankingScore) THEN <<e>> \o sorted
    ELSE <<Head(sorted)>> \o InsertByRanking_Ascending(Tail(sorted), e)

\* A mutation of InsertByRanking: e is placed before the entries of its rank.
RECURSIVE InsertByRanking_Unstable(_, _)
InsertByRanking_Unstable(sorted, e) ==
    IF sorted = <<>> THEN <<e>>
    ELSE IF AtMost(Head(sorted).rankingScore, e.rankingScore) THEN <<e>> \o sorted
    ELSE <<Head(sorted)>> \o InsertByRanking_Unstable(Tail(sorted), e)

\* e placed after every entry of sorted that ranks at least as high.  A NaN
\* score compares False with everything: of two entries, one of them NaN, the
\* order is the catalog's.
RECURSIVE InsertByRanking(_, _)
InsertByRanking(sorted, e) ==
    IF sorted = <<>> THEN <<e>>
    ELSE IF Less(Head(sorted).rankingScore, e.rankingScore) THEN <<e>> \o sorted
    ELSE <<Head(sorted)>> \o InsertByRanking(Tail(sorted), e)

\* results.sort(key=rankingScore, reverse=True): descending and stable.
RECURSIVE SortByRanking(_)
SortByRanking(results) ==
    IF results = <<>> THEN <<>>
    ELSE InsertByRanking(SortByRanking(SubSeq(results, 1, Len(results) - 1)),
                         results[Len(results)])

\* A mutation of Truncate: the cut is after the first six.
Truncate_Six(results) == SubSeq(results, 1, Min(TopN + 1, Len(results)))

\* results[:5]
Truncate(results) == SubSeq(results, 1, Min(TopN, Len(results)))

\* float(product.get("maxBudget", 1e9)): the budget of the feasibility filter
FilterBudget(product) == Get(product, "maxBudget", HugeBudget)

\* The rows at the kept positions, scored against each other alone.
ScoreKept(product, weights, materials_raw, pred_cost, pred_co2, kept) ==
    _compute_indices_and_scores(
        [k \in DOMAIN kept |-> ScoredRow(materials_raw[kept[k]], kept[k], product)],
        [k \in DOMAIN kept |-> pred_cost[kept[k]]],
        [k \in DOMAIN kept |-> pred_co2[kept[k]]],
        weights)

\* The scored frame of recommend: the rows that pass the feasibility filter, with
\* the indices and scores computed over them alone.
ScoredFrame(product, weights, materials_raw, pred_cost, pred_co2) ==
    ScoreKept(product, weights, materials_raw, pred_cost, pred_co2,
              Kept(ValidMask(ClampNonNeg(pred_cost), ClampNonNeg(pred_co2),
                             FilterBudget(product)),
                   Len(materials_raw)))

Entries(scored) == [k \in DOMAIN scored |-> ResultEntry(scored[k])]

\* The results list of recommend before the sort: one dict per scored row, in
\* catalog order.
Results(product, weights, materials_raw, pred_cost, pred_co2) ==
    Entries(ScoredFrame(product, weights, materials_raw, pred_cost, pred_co2))

\* ------------------------------------------------------------- inputs

Sturdy == [MaterialName |-> "Sturdy", StrengthRating |-> 8, MoistureBarrier |-> 7,
           OxygenBarrier |-> 6, CostPerKG_USD |-> 1]
Flimsy == [MaterialName |-> "Flimsy", StrengthRating |-> 3, MoistureBarrier |-> 7,
           OxygenBarrier |-> 4, CostPerKG_USD |-> 4]
MaterialRows == {Sturdy, Flimsy}

SeqsBetween(S, lo, hi) == UNION {[1..k -> S] : k \in lo..hi}

\* The materials tables the service may be deployed with (zero rows included).
Catalogs == SeqsBetween(MaterialRows, 0, MaxCatalog)
\* Tables longer than the cut of results[:5].
LongCatalogs == SeqsBetween({Sturdy}, TopN + 1, MaxLongCatalog)

\* What the regressors may return for a row: finite, possibly negative.
PredCostVals == {-1, 2, 5}
PredCo2Vals == {-1, 2}
\* The same CO2 for every row: no row is above the median.
FlatCo2Vals == {2}

Product(w, f, b, m, o) ==
    [weightKg |-> w, fragility |-> f, maxBudget |-> b, moistureReq |-> m,
     oxygenSensitivity |-> o]

\* ProductRequest: weightKg > 0, 1 <= fragility <= 10, maxBudget > 0,
\* 0 <= moistureReq <= 10, 0 <= oxygenSensitivity <= 10.
ProductRequestValid(p) ==
    /\ p.weightKg > 0
    /\ p.fragility >= 1 /\ p.fragility <= 10
    /\ p.maxBudget > 0
    /\ p.moistureReq >= 0 /\ p.moistureReq <= 10
    /\ p.oxygenSensitivity >= 0 /\ p.oxygenSensitivity <= 10

\* Bodies a client may POST to /recommend, malformed ones included.
HttpPayloads ==
    {Product(w, f, b, m, o) : w \in {0, 2}, f \in {0, 5, 11}, b \in {0, 1, 6},
                              m \in {5, 11}, o \in {-1, 5}}

\* What _try_parse_product_from_text yields: weight and budget are any
\* non-negative numbers of the text; fragility, moisture and oxygen are clamped
\* to their ranges by the parser.
ChatProducts ==
    {Product(w, DefaultRequirement, b, DefaultRequirement, DefaultRequirement) :
        w \in {0, 1}, b \in {0, 1, 3}}

\* Products of direct calls of recommend.
EngineProducts ==
    {Product(1, DefaultRequirement, b, DefaultRequirement, DefaultRequirement) :
        b \in {1, 3, 6}}

Frac(n) == [n |-> n, d |-> 100]

\* The weights dicts of direct calls: keys present or absent; values negative,
\* within [0, 1] and above 1.
EngineWeights ==
    {None}
    \cup {Some([k \in {"co2"} |-> Frac(c)]) : c \in {-50, 150}}
    \cup {Some([k \in {"cost"} |-> Frac(90)])}
    \cup {Some([k \in {"co2", "cost"} |-> IF k = "co2" THEN Frac(c) ELSE Frac(q)]) :
            c \in {-50, 30, 90, 150}, q \in {-20, 20, 90}}
    \cup {Some([k \in {} |-> Frac(0)])}

\* ------------------------------------------------------------- state

\* A mutation of AllLoaded: the catalog is not looked at.
AllLoaded_ModelsOnly == _cost_model # None /\ _co2_model # None

\* The test at the top of load_models: all three handles are set.
AllLoaded == _cost_model # None /\ _co2_model # None /\ _materials_raw # None

\* A mutation of LoadOutcome: the manifest is not looked for.
LoadOutcome_NoManifestCheck ==
    IF AllLoaded THEN "cached"
    ELSE IF ~model_files_exist THEN "no_model_files"
    ELSE IF materials_source = None THEN "no_materials"
    ELSE "loaded"

\* What a call of load_models does in the current state.
LoadOutcome ==
    IF AllLoaded THEN "cached"
    ELSE IF ~manifest_exists THEN "no_manifest"
    ELSE IF ~model_files_exist THEN "no_model_files"
    ELSE IF materials_source = None THEN "no_materials"
    ELSE "loaded"

LoadFailed == LoadOutcome \in {"no_manifest", "no_model_files", "no_materials"}

\* _materials_raw when load_models has returned or raised.
LoadedCatalog == IF LoadOutcome = "loaded" THEN materials_source ELSE _materials_raw

\* The two pipelines of load_models, assigned before the catalog is read.  The
\* call runs in one piece here: no thread is inside load_models.
LoadPipelines ==
    /\ _cost_model' = IF LoadOutcome \in {"no_materials", "loaded"}
                      THEN Some("pipeline") ELSE _cost_model
    /\ _co2_model' = IF LoadOutcome \in {"no_materials", "loaded"}
                     THEN Some("pipeline") ELSE _co2_model
    /\ UNCHANGED <<manifest_exists, model_files_exist, materials_source, pc, loads, limiterVars>>

\* load_models(): the two pipelines are assigned before the catalog is read.
load_models ==
    /\ LoadPipelines
    /\ _materials_raw' = LoadedCatalog

\* GeminiRateLimiter.__init__; lock is None or Some(the thread holding it).
GeminiRateLimiter(requests_per_minute, requests_per_day) ==
    [rpm |-> requests_per_minute, rpd |-> requests_per_day,
     minute_requests |-> <<>>, day_requests |-> <<>>, lock |-> None]

\* A thread outside wait_if_needed.
IdleCaller == [at |-> "idle", now |-> 0, wake |-> 0]

\* app.py as imported: the limiter is constructed and nothing has called it.
InitLimiter ==
    /\ gemini_limiter = GeminiRateLimiter(Rpm, Rpd)
    /\ clock = 0
    /\ callers = [t \in 1..NumThreads |-> IdleCaller]
    /\ returned = <<>>

\* No request thread is inside load_models; no handle has been assigned.
NoThreads == <<>>
NoLoads == [cost |-> 0, co2 |-> 0, materials |-> 0]

NoRequest == [via |-> "none", product |-> None, weights |-> None, extra_args |-> <<>>,
              pred_cost |-> <<>>, pred_co2 |-> <<>>, after |-> None]
NoResponse == [kind |-> "none", error |-> None, http |-> None, recs |-> <<>>,
               results |-> <<>>, invoked |-> <<>>, resolved |-> None]

\* recommend raised: no list.
Raised(err, invoked) ==
    [kind |-> "raised", error |-> Some(err), http |-> None, recs |-> <<>>,
     results |-> <<>>, invoked |-> invoked, resolved |-> None]

\* A mutation of ReturnedList: the explanation builders run whatever the frame.
ReturnedList_AlwaysExplains(results, resolved) ==
    [kind |-> "list", error |-> None, http |-> None,
     recs |-> Truncate(SortByRanking(results)),
     results |-> results,
     invoked |-> <<"load_models", "_build_inference_frame", "predict",
                   "_compute_indices_and_scores", "_build_reason",
                   "_build_detailed_explanation", "sort">>,
     resolved |-> Some(resolved)]

\* recommend returned results[:5] after the sort; results is the list before the
\* sort and the cut, resolved the weighting it was scored with.
ReturnedList(results, resolved) ==
    [kind |-> "list", error |-> None, http |-> None,
     recs |-> Truncate(SortByRanking(results)),
     results |-> results,
     invoked |-> <<"load_models", "_build_inference_frame", "predict",
                   "_compute_indices_and_scores">>
                 \o (IF results = <<>> THEN <<>>
                     ELSE <<"_build_reason", "_build_detailed_explanation">>)
                 \o <<"sort">>,
     resolved |-> Some(resolved)]

Returned(product, weights, materials_raw, pred_cost, pred_co2) ==
    ReturnedList(Results(product, weights, materials_raw, pred_cost, pred_co2),
                 ResolveWeights(weights))

\* What the caller makes of recommend's outcome: /recommend answers 200 with the
\* list or 500 on any exception; the other callers have no status code.
Wrap(via, outcome) ==
    IF via = "http"
    THEN [outcome EXCEPT !.http = IF outcome.kind = "list" THEN Some(200) ELSE Some(500)]
    ELSE outcome

\* A mutation of FrameAfterCall: the filter is applied to the module's frame
\* itself.
FrameAfterCall_Filtered(materials_raw, valid_mask) ==
    [k \in DOMAIN Kept(valid_mask, Len(materials_raw)) |->
        materials_raw[Kept(valid_mask, Len(materials_raw))[k]]]

\* The module's frame after filtered_materials = _materials_raw[valid_mask].copy()
\* and the scoring of that copy: every row is still there.
FrameAfterCall(materials_raw, valid_mask) == materials_raw

\* The caller's product dict once recommend has returned: the code reads it
\* with product.get and assigns to none of its keys.
ProductAfterCall(product) == product

\* A mutation of WeightsAfterCall: the clamped and rescaled weights are written
\* back into the caller's dict.
WeightsAfterCall_WrittenBack(weights, resolved) ==
    IF weights = None THEN None ELSE Some(resolved)

\* The caller's weights dict once recommend has returned: the clamps and the
\* rescaling assign to the locals w_co2 and w_cost (resolved), never to the dict.
WeightsAfterCall(weights, resolved) == weights

\* The two dicts of the caller as the call leaves them.
DictsAfterCall(product, weights) ==
    [product |-> ProductAfterCall(product),
     weights |-> WeightsAfterCall(weights, ResolveWeights(weights))]

\* The rows of the materials frame once load_models has returned.
CatalogAtCall == IF LoadedCatalog = None THEN <<>> ELSE The(LoadedCatalog)

\* prediction.recommend(product, weights) called by `via`; outputs is the set of
\* <<pred_cost, pred_co2>> the two regressors may return for the catalog.
RecommendOn(via, product, weights, outputs) ==
    /\ LoadPipelines
    /\ UNCHANGED user
    /\ IF LoadFailed
       THEN /\ _materials_raw' = LoadedCatalog
            /\ request' = [NoRequest EXCEPT !.via = via, !.product = Some(product),
                                            !.weights = weights]
            /\ response' = Wrap(via, Raised("RuntimeError", <<"load_models">>))
       ELSE IF ~HasColumn(The(LoadedCatalog), "CostPerKG_USD")
       THEN \* df.get("CostPerKG_USD", 0) is the int 0, which has no fillna.
            /\ _materials_raw' = LoadedCatalog
            /\ request' = [NoRequest EXCEPT !.via = via, !.product = Some(product),
                                            !.weights = weights]
            /\ response' = Wrap(via, Raised("AttributeError",
                               <<"load_models", "_build_inference_frame">>))
       ELSE \* _cost_model.predict(X) on a frame of zero rows: the pipeline's
            \* input validation raises ValueError, or the call returns an
            \* empty array.
            \/ /\ The(LoadedCatalog) = <<>>
               /\ _materials_raw' = LoadedCatalog
               /\ request' = [NoRequest EXCEPT !.via = via,
                                               !.product = Some(product),
                                               !.weights = weights]
               /\ response' = Wrap(via, Raised("ValueError",
                                  <<"load_models", "_build_inference_frame",
                                    "predict">>))
            \/ \E out \in outputs :
                  /\ _materials_raw' =
                        Some(FrameAfterCall(The(LoadedCatalog),
                                            ValidMask(ClampNonNeg(out[1]),
                                                      ClampNonNeg(out[2]),
                                                      FilterBudget(product))))
                  /\ request' = [via |-> via, product |-> Some(product),
                                 weights |-> weights, extra_args |-> <<>>,
                                 pred_cost |-> out[1], pred_co2 |-> out[2],
                                 after |-> Some(DictsAfterCall(product, weights))]
                  /\ response' = Wrap(via, Returned(product, weights,
                                                    The(LoadedCatalog),
                                                    out[1], out[2]))

\* What the regressors may return for cat: any value of costVals and of co2Vals
\* for each row.
AnyOutputs(cat, costVals, co2Vals) ==
    [1..Len(cat) -> costVals] \X [1..Len(cat) -> co2Vals]

\* prediction.recommend(product, weights) called by `via`, the regressors
\* returning values of costVals and co2Vals.
RecommendCall(via, product, weights, costVals, co2Vals) ==
    /\ UNCHANGED previous
    /\ RecommendOn(via, product, weights,
                   AnyOutputs(CatalogAtCall, costVals, co2Vals))

Idle == request.via = "none"

\* The caller takes the outcome; the next call starts from there.
Return ==
    /\ ~Idle
    /\ request' = NoRequest
    /\ response' = NoResponse
    /\ UNCHANGED <<manifest_exists, model_files_exist, materials_source,
                   _cost_model, _co2_model, _materials_raw, user,
                   previous, pc, loads, limiterVars>>

NoPreferences == [weight_co2 |-> None, weight_cost |-> None, weight_risk |-> None]

\* ------------------------------------------------- direct calls (engine)

\* recommend(product, weights) called directly with any product and weights.
EngineCall ==
    /\ Idle
    /\ \E product \in EngineProducts, weights \in EngineWeights :
          RecommendCall("api", product, weights, PredCostVals, PredCo2Vals)

InitEngine ==
    /\ manifest_exists = TRUE
    /\ model_files_exist = TRUE
    /\ materials_source \in {Some(c) : c \in Catalogs}
    /\ _cost_model = None
    /\ _co2_model = None
    /\ _materials_raw = None
    /\ user = NoPreferences
    /\ request = NoRequest
    /\ response = NoResponse
    /\ previous = None
    /\ pc = NoThreads
    /\ loads = NoLoads
    /\ InitLimiter

NextEngine == EngineCall \/ Return

SpecEngine == InitEngine /\ [][NextEngine]_vars

\* ------------------------------------------ direct calls, long catalogs

\* The N a caller would like instead of five.
OverrideN == {2, 6}

\* recommend(product, weights, n): the signature takes two parameters, so the
\* call raises TypeError before the body runs.
EngineCallWithN ==
    /\ Idle
    /\ \E product \in EngineProducts, n \in OverrideN :
          /\ request' = [NoRequest EXCEPT !.via = "api", !.product = Some(product),
                                          !.extra_args = <<n>>]
          /\ response' = Raised("TypeError", <<>>)
    /\ UNCHANGED <<manifest_exists, model_files_exist, materials_source,
                   _cost_model, _co2_model, _materials_raw, user,
                   previous, pc, loads, limiterVars>>

\* recommend on a catalog longer than the cut.
EngineCallLong ==
    /\ Idle
    /\ RecommendCall("api", Product(1, DefaultRequirement, 6, DefaultRequirement,
                                    DefaultRequirement),
                     None, PredCostVals, FlatCo2Vals)

InitTopN ==
    /\ manifest_exists = TRUE
    /\ model_files_exist = TRUE
    /\ materials_source \in {Some(c) : c \in LongCatalogs}
    /\ _cost_model = None
    /\ _co2_model = None
    /\ _materials_raw = None
    /\ user = NoPreferences
    /\ request = NoRequest
    /\ response = NoResponse
    /\ previous = None
    /\ pc = NoThreads
    /\ loads = NoLoads
    /\ InitLimiter

NextTopN == EngineCallLong \/ EngineCallWithN \/ Return

SpecTopN == InitTopN /\ [][NextTopN]_vars

\* The module as imported, trained and seeded with one of catalogs: no handle is
\* loaded and nothing was called.
Deployed(catalogs) ==
    /\ manifest_exists = TRUE
    /\ model_files_exist = TRUE
    /\ materials_source \in {Some(c) : c \in catalogs}
    /\ _cost_model = None
    /\ _co2_model = None
    /\ _materials_raw = None
    /\ user = NoPreferences
    /\ request = NoRequest
    /\ response = NoResponse
    /\ previous = None
    /\ pc = NoThreads
    /\ loads = NoLoads
    /\ InitLimiter

\* ------------------------------------- recommend on two-material catalogs

\* Catalogs of two materials, A then B.
PairCatalogs == SeqsBetween(MaterialRows, 2, 2)

\* Predictions of 5 or 8 USD and of 1 or 2 kg for a row.
PairCostVals == {5, 8}
PairCo2Vals == {1, 2}

\* Products of 1 kg with a budget below, between and above the predicted costs.
PairProducts ==
    {Product(1, DefaultRequirement, b, DefaultRequirement, DefaultRequirement) :
        b \in {1, 6, 10}}

\* {co2: 7/15, cost: 0.2}: with a cost index of 0 for Sturdy and of 100 for
\* Flimsy (penalty 45) and one CO2 index the two ranking scores are equal.
TieWeights ==
    Some([k \in {"co2", "cost"} |->
            IF k = "co2" THEN [n |-> 7, d |-> 15] ELSE Frac(20)])

\* {cost: 2906/15031}: the same two ranking scores are 1/30062 apart.
NearTieWeights == Some([k \in {"cost"} |-> [n |-> 2906, d |-> 15031]])

PairWeights ==
    {None, Some([k \in {"co2", "cost"} |-> Frac(90)]), TieWeights, NearTieWeights}

PairCall ==
    /\ Idle
    /\ \E product \in PairProducts, weights \in PairWeights :
          RecommendCall("api", product, weights, PairCostVals, PairCo2Vals)

InitPair == Deployed(PairCatalogs)

NextPair == PairCall \/ Return

SpecPair == InitPair /\ [][NextPair]_vars

\* ------------------------------ recommend with a regressor that returns NaN

\* Materials tables of one and two rows.
ShortCatalogs == SeqsBetween(MaterialRows, 1, 2)

\* What the regressors may return for a row: negative, positive, or NaN.
NaNCostVals == {-1, 2, NaN}
NaNCo2Vals == {-1, 2, NaN}

NaNCall ==
    /\ Idle
    /\ \E product \in EngineProducts :
          RecommendCall("api", product, None, NaNCostVals, NaNCo2Vals)

InitNaN == Deployed(ShortCatalogs)

NextNaN == NaNCall \/ Return

SpecNaN == InitNaN /\ [][NextNaN]_vars

\* ------------------------------------------ recommend on a sparse catalog

NumericColumns == {"StrengthRating", "MoistureBarrier", "OxygenBarrier",
                   "CostPerKG_USD"}

\* Row m with the cell of column c empty (or not a number).
Blanked(m, c) == [m EXCEPT ![c] = NaN]
\* Row m of a table that has none of the columns dropped.
Without(m, dropped) == [c \in DOMAIN m \ dropped |-> m[c]]

\* Rows of a materials table with at most one empty cell.
SparseRows == {Sturdy, Flimsy} \cup {Blanked(Flimsy, c) : c \in NumericColumns}

\* Materials tables of one and two rows that lack at most one numeric column.
SparseCatalogs ==
    {[i \in DOMAIN cat |-> Without(cat[i], dropped)] :
        cat \in SeqsBetween(SparseRows, 1, 2),
        dropped \in {{}} \cup {{c} : c \in NumericColumns}}

SparseCall ==
    /\ Idle
    /\ \E product \in EngineProducts :
          RecommendCall("api", product, None, PredCostVals, FlatCo2Vals)

InitSparse == Deployed(SparseCatalogs)

NextSparse == SparseCall \/ Return

SpecSparse == InitSparse /\ [][NextSparse]_vars

\* ------------------------------------------------- recommend called twice

\* Materials tables of at least one row.
StockedCatalogs == SeqsBetween(MaterialRows, 1, MaxCatalog)

\* The first of two calls.
FirstCall ==
    /\ previous = None
    /\ EngineCall

\* The caller keeps what recommend returned and what the regressors had
\* predicted.
Keep ==
    /\ ~Idle
    /\ previous = None
    /\ previous' = Some([request |-> request, response |-> response])
    /\ request' = NoRequest
    /\ response' = NoResponse
    /\ UNCHANGED <<manifest_exists, model_files_exist, materials_source,
                   _cost_model, _co2_model, _materials_raw, user, pc, loads, limiterVars>>

\* What a deterministic predictor returns for a frame of n rows, having returned
\* pred for it before.
SamePrediction(pred, n) == SubSeq(pred, 1, Min(n, Len(pred)))

\* The second call: the product and the weights of the first, and a predictor
\* that repeats itself.
Again ==
    /\ Idle
    /\ previous # None
    /\ UNCHANGED previous
    /\ RecommendOn(The(previous).request.via,
                   The(The(previous).request.product),
                   The(previous).request.weights,
                   {<<SamePrediction(The(previous).request.pred_cost,
                                     Len(CatalogAtCall)),
                      SamePrediction(The(previous).request.pred_co2,
                                     Len(CatalogAtCall))>>})

\* The caller drops both results.
Forget ==
    /\ ~Idle
    /\ previous # None
    /\ previous' = None
    /\ request' = NoRequest
    /\ response' = NoResponse
    /\ UNCHANGED <<manifest_exists, model_files_exist, materials_source,
                   _cost_model, _co2_model, _materials_raw, user, pc, loads, limiterVars>>

InitTwice == Deployed(StockedCatalogs)

NextTwice == FirstCall \/ Keep \/ Again \/ Forget

SpecTwice == InitTwice /\ [][NextTwice]_vars

\* ------------------------------- recommend again, one CO2 prediction raised

\* Materials tables of two rows and more: Sturdy, Flimsy, Sturdy and so on.
RaiseCatalog(n) == [i \in 1..n |-> IF i % 2 = 1 THEN Sturdy ELSE Flimsy]
RaiseCatalogs == {RaiseCatalog(n) : n \in 2..MaxRaiseCatalog}

RaiseCostVals == {2, 5}
RaiseCo2Vals == {-1, 1, 2}
\* The values a single CO2 prediction is raised to.
RaisedCo2Vals == {1, 2, 3}

\* Budgets below and above the higher predicted cost.
RaiseProducts ==
    {Product(1, DefaultRequirement, b, DefaultRequirement, DefaultRequirement) :
        b \in {3, 6}}

RaiseWeights == {None, Some([k \in {"co2", "cost"} |-> Frac(90)])}

\* The first of the two runs.
FirstRun ==
    /\ Idle
    /\ previous = None
    /\ \E product \in RaiseProducts, weights \in RaiseWeights :
          RecommendCall("api", product, weights, RaiseCostVals, RaiseCo2Vals)

\* The second run: the product, the weights and the catalog of the first, and the
\* predictions of the first but for one row, whose predicted CO2 is higher.
AgainHigherCo2 ==
    /\ Idle
    /\ previous # None
    /\ UNCHANGED previous
    /\ \E i \in DOMAIN The(previous).request.pred_co2, v \in RaisedCo2Vals :
          /\ v > Max(The(previous).request.pred_co2[i], 0)
          /\ RecommendOn(The(previous).request.via,
                         The(The(previous).request.product),
                         The(previous).request.weights,
                         {<<The(previous).request.pred_cost,
                            [The(previous).request.pred_co2 EXCEPT ![i] = v]>>})

InitRaise == Deployed(RaiseCatalogs)

NextRaise == FirstRun \/ Keep \/ AgainHigherCo2 \/ Forget

SpecRaise == InitRaise /\ [][NextRaise]_vars

\* --------------------------- load_models in the threads of the first requests

\* The threadpool workers serving the first requests: the handlers are plain
\* defs, which FastAPI runs in worker threads.
Threads == 1..NumThreads

\* Thread t goes from position `from` to position `to`.
Goes(t, from, to) ==
    /\ pc[t] = from
    /\ pc' = [pc EXCEPT ![t] = to]

\* Nothing but pc changes.
OnlyPc ==
    UNCHANGED <<manifest_exists, model_files_exist, materials_source, _cost_model,
                _co2_model, _materials_raw, user, request, response, previous,
                loads, limiterVars>>

\* The handler of a request calls load_models.
Enter(t) == Goes(t, "idle", "check") /\ OnlyPc

\* if _cost_model is not None and _co2_model is not None and
\* _materials_raw is not None: return
CheckLoaded(t) ==
    /\ Goes(t, "check", IF AllLoaded THEN "done" ELSE "manifest")
    /\ OnlyPc

\* if not manifest_path.exists(): raise RuntimeError; else the manifest is read
ReadManifest(t) ==
    /\ Goes(t, "manifest", IF manifest_exists THEN "files" ELSE "raised")
    /\ OnlyPc

\* if not cost_path.exists() or not co2_path.exists(): raise RuntimeError
CheckFiles(t) ==
    /\ Goes(t, "files", IF model_files_exist THEN "load_cost" ELSE "raised")
    /\ OnlyPc

\* _cost_model = joblib.load(cost_path)
LoadCost(t) ==
    /\ Goes(t, "load_cost", "load_co2")
    /\ _cost_model' = Some("pipeline")
    /\ loads' = [loads EXCEPT !.cost = @ + 1]
    /\ UNCHANGED <<manifest_exists, model_files_exist, materials_source,
                   _co2_model, _materials_raw, user, request, response, previous,
                   limiterVars>>

\* _co2_model = joblib.load(co2_path)
LoadCo2(t) ==
    /\ Goes(t, "load_co2", "load_materials")
    /\ _co2_model' = Some("pipeline")
    /\ loads' = [loads EXCEPT !.co2 = @ + 1]
    /\ UNCHANGED <<manifest_exists, model_files_exist, materials_source,
                   _cost_model, _materials_raw, user, request, response, previous,
                   limiterVars>>

\* _materials_raw = _load_raw_materials(), which raises when neither the table
\* nor the CSV can be read.
LoadMaterials(t) ==
    /\ Goes(t, "load_materials", IF materials_source = None THEN "raised" ELSE "done")
    /\ _materials_raw' = IF materials_source = None THEN _materials_raw
                         ELSE materials_source
    /\ loads' = IF materials_source = None THEN loads
                ELSE [loads EXCEPT !.materials = @ + 1]
    /\ UNCHANGED <<manifest_exists, model_files_exist, materials_source,
                   _cost_model, _co2_model, user, request, response, previous,
                   limiterVars>>

InitLoad ==
    /\ manifest_exists \in BOOLEAN
    /\ model_files_exist \in BOOLEAN
    /\ materials_source \in {None} \cup {Some(c) : c \in Catalogs}
    /\ _cost_model = None
    /\ _co2_model = None
    /\ _materials_raw = None
    /\ user = NoPreferences
    /\ request = NoRequest
    /\ response = NoResponse
    /\ previous = None
    /\ pc = [t \in Threads |-> "idle"]
    /\ loads = NoLoads
    /\ InitLimiter

NextLoad ==
    \E t \in Threads :
        \/ Enter(t)
        \/ CheckLoaded(t)
        \/ ReadManifest(t)
        \/ CheckFiles(t)
        \/ LoadCost(t)
        \/ LoadCo2(t)
        \/ LoadMaterials(t)

SpecLoad == InitLoad /\ [][NextLoad]_vars

\* ------------------------------------- GeminiRateLimiter.wait_if_needed

\* The windows of the two limits, in seconds.
Minute == 60
Day == 86400

\* [t for t in ts if now - t < window]
RECURSIVE Recent(_, _, _)
Recent(ts, now, window) ==
    IF ts = <<>> THEN <<>>
    ELSE (IF now - Head(ts) < window THEN <<Head(ts)>> ELSE <<>>)
         \o Recent(Tail(ts), now, window)

\* The limiter after the two lists are cleaned at `now`.
Cleaned(lim, now) ==
    [lim EXCEPT !.minute_requests = Recent(@, now, Minute),
                !.day_requests = Recent(@, now, Day)]

\* wait_time = 60 - (now - self.minute_requests[0])
WaitTime(lim, now) == Minute - (now - lim.minute_requests[1])

\* The check of the RPM limit tells the thread to sleep.
MustSleep(lim, now) ==
    /\ Len(lim.minute_requests) >= lim.rpm
    /\ WaitTime(lim, now) > 0

\* The check of the RPD limit raises.
QuotaExceeded(lim) == Len(lim.day_requests) >= lim.rpd

\* Record this request: `now` is appended to both lists.
Recorded(lim, now) ==
    [lim EXCEPT !.minute_requests = Append(@, now),
                !.day_requests = Append(@, now)]

\* Nothing of the recommender changes.
OnlyLimiter ==
    UNCHANGED <<manifest_exists, model_files_exist, materials_source, _cost_model,
                _co2_model, _materials_raw, user, request, response, previous,
                pc, loads>>

\* From the RPD check to the end of the with block, for the thread t that holds
\* the lock and read `now` at its start: the call raises, or records `now` and
\* returns; either way the lock is released.
FinishWait(t, lim, now) ==
    /\ gemini_limiter' =
          [(IF QuotaExceeded(lim) THEN lim ELSE Recorded(lim, now))
              EXCEPT !.lock = None]
    /\ returned' = IF QuotaExceeded(lim) THEN returned ELSE Append(returned, clock)
    /\ callers' = [callers EXCEPT ![t] = IdleCaller]

\* Thread t calls wait_if_needed and queues for the lock.
CallWait(t) ==
    /\ callers[t].at = "idle"
    /\ callers' = [callers EXCEPT ![t].at = "lock"]
    /\ UNCHANGED <<gemini_limiter, clock, returned>>
    /\ OnlyLimiter

\* Thread t holds the lock with the lists cleaned (lim): it starts to sleep, or
\* goes on to the RPD check.
Proceed(t, lim) ==
    IF MustSleep(lim, clock)
    THEN /\ gemini_limiter' = [lim EXCEPT !.lock = Some(t)]
         /\ callers' = [callers EXCEPT ![t] =
                           [at |-> "sleep", now |-> clock,
                            wake |-> clock + WaitTime(lim, clock)]]
         /\ UNCHANGED returned
    ELSE FinishWait(t, lim, clock)

\* Thread t takes the lock, reads the clock and cleans the lists.
Acquire(t) ==
    /\ callers[t].at = "lock"
    /\ gemini_limiter.lock = None
    /\ Proceed(t, Cleaned(gemini_limiter, clock))
    /\ UNCHANGED clock
    /\ OnlyLimiter

\* time.sleep(wait_time) returns; self.minute_requests = []; the rest of the
\* block runs with the `now` read before the sleep.
Wake(t) ==
    /\ callers[t].at = "sleep"
    /\ clock >= callers[t].wake
    /\ FinishWait(t, [gemini_limiter EXCEPT !.minute_requests = <<>>],
                  callers[t].now)
    /\ UNCHANGED clock
    /\ OnlyLimiter

\* Time passes.
Tick ==
    /\ clock + Step <= MaxClock
    /\ clock' = clock + Step
    /\ UNCHANGED <<gemini_limiter, callers, returned>>
    /\ OnlyLimiter

InitLimited == Deployed({<<Sturdy>>})

NextLimited ==
    \/ \E t \in Threads : CallWait(t) \/ Acquire(t) \/ Wake(t)
    \/ Tick

SpecLimited == InitLimited /\ [][NextLimited]_vars

\* ------------------------------------------------------------ service

\* recommend_materials: the weights dict built from the user's stored weights.
HandlerWeights(u) ==
    IF u.weight_co2 # None \/ u.weight_cost # None
    THEN Some([k \in ({"co2"} \cap (IF u.weight_co2 # None THEN {"co2"} ELSE {}))
                     \cup ({"cost"} \cap (IF u.weight_cost # None THEN {"cost"} ELSE {}))
               |-> IF k = "co2" THEN The(u.weight_co2) ELSE The(u.weight_cost)])
    ELSE None

\* FastAPI's answer to a body that fails ProductRequest: the handler is not run.
Rejected ==
    [kind |-> "rejected", error |-> Some("ValidationError"), http |-> Some(422),
     recs |-> <<>>, results |-> <<>>, invoked |-> <<>>, resolved |-> None]

\* POST /recommend
PostRecommend ==
    /\ Idle
    /\ \E p \in HttpPayloads :
          IF ProductRequestValid(p)
          THEN RecommendCall("http", p, HandlerWeights(user), PredCostVals, PredCo2Vals)
          ELSE /\ request' = [NoRequest EXCEPT !.via = "http", !.product = Some(p)]
               /\ response' = Rejected
               /\ UNCHANGED <<manifest_exists, model_files_exist, materials_source,
                              _cost_model, _co2_model, _materials_raw, user,
                              previous, pc, loads, limiterVars>>

\* The chatbot's tool augmentation: recommend(product) on the parsed product.
ChatRecommend ==
    /\ Idle
    /\ \E p \in ChatProducts :
          RecommendCall("chat", p, None, PredCostVals, PredCo2Vals)

DefaultRiskWeight == [n |-> 15, d |-> 100]    \* 0.15

\* x if x is not None else default
OrDefault(o, default) == IF o # None THEN The(o) ELSE default

\* The three weights as stored: divided by their total when it exceeds 1.
\* a, b and c are the numerators of co2, cost and risk over den.
Stored(co2, cost, risk, a, b, c, den) ==
    IF a + b + c > den
    THEN [weight_co2 |-> Some([n |-> a \div GCD(a, a + b + c),
                               d |-> (a + b + c) \div GCD(a, a + b + c)]),
          weight_cost |-> Some([n |-> b \div GCD(b, a + b + c),
                                d |-> (a + b + c) \div GCD(b, a + b + c)]),
          weight_risk |-> Some([n |-> c \div GCD(c, a + b + c),
                                d |-> (a + b + c) \div GCD(c, a + b + c)])]
    ELSE [weight_co2 |-> Some(co2), weight_cost |-> Some(cost),
          weight_risk |-> Some(risk)]

\* new_co2, new_cost and new_risk normalised and written to the user's row.
NewWeights(co2, cost, risk) ==
    Stored(co2, cost, risk, co2.n * cost.d * risk.d, cost.n * co2.d * risk.d,
           risk.n * co2.d * cost.d, co2.d * cost.d * risk.d)

\* Bodies of POST /user/preferences that pass PreferencesRequest: each weight
\* absent or within [0, 1].
PreferencePayloads ==
    {[co2Weight |-> Some(Frac(80)), costWeight |-> None, riskWeight |-> None],
     [co2Weight |-> None, costWeight |-> Some(Frac(90)), riskWeight |-> None],
     [co2Weight |-> Some(Frac(20)), costWeight |-> Some(Frac(30)), riskWeight |-> None]}

\* POST /user/preferences (the first save of a user's preferences)
UpdatePreferences ==
    /\ Idle
    /\ user = NoPreferences
    /\ \E payload \in PreferencePayloads :
          user' = NewWeights(
                    OrDefault(payload.co2Weight,
                              OrDefault(user.weight_co2, DefaultCo2Weight)),
                    OrDefault(payload.costWeight,
                              OrDefault(user.weight_cost, DefaultCostWeight)),
                    OrDefault(payload.riskWeight,
                              OrDefault(user.weight_risk, DefaultRiskWeight)))
    /\ UNCHANGED <<manifest_exists, model_files_exist, materials_source,
                   _cost_model, _co2_model, _materials_raw, request, response,
                   previous, pc, loads, limiterVars>>

\* startup_event: load_models() with every exception logged and swallowed.
StartupEvent ==
    /\ Idle
    /\ ~AllLoaded
    /\ load_models
    /\ UNCHANGED <<user, request, response, previous>>

\* train_models.py writes both pipelines and the manifest.
TrainModels ==
    /\ Idle
    /\ ~(manifest_exists /\ model_files_exist)
    /\ manifest_exists' = TRUE
    /\ model_files_exist' = TRUE
    /\ UNCHANGED <<materials_source, _cost_model, _co2_model, _materials_raw,
                   user, request, response, previous, pc, loads, limiterVars>>

\* The materials table (or the CSV) is put in place.
SeedMaterials ==
    /\ Idle
    /\ materials_source = None
    /\ materials_source' \in {Some(c) : c \in Catalogs}
    /\ UNCHANGED <<manifest_exists, model_files_exist, _cost_model, _co2_model,
                   _materials_raw, user, request, response, previous, pc, loads, limiterVars>>

Init ==
    /\ manifest_exists \in BOOLEAN
    /\ model_files_exist \in BOOLEAN
    /\ materials_source \in {None} \cup {Some(c) : c \in Catalogs}
    /\ _cost_model = None
    /\ _co2_model = None
    /\ _materials_raw = None
    /\ user = NoPreferences
    /\ request = NoRequest
    /\ response = NoResponse
    /\ previous = None
    /\ pc = NoThreads
    /\ loads = NoLoads
    /\ InitLimiter

Next ==
    \/ StartupEvent
    \/ PostRecommend
    \/ ChatRecommend
    \/ TrainModels
    \/ SeedMaterials
    \/ UpdatePreferences
    \/ Return

Spec == Init /\ [][Next]_vars

\* ------------------------------------------------------------- claims

\* What the last call saw: the clamped predictions of the whole catalog.
CostValues == ClampNonNeg(request.pred_cost)
Co2Values == ClampNonNeg(request.pred_co2)
CatalogRows == DOMAIN request.pred_cost

Listed == response.kind = "list"
Affordable(i) == CostValues[i] <= The(request.product).maxBudget
LowEmitter(i) == 2 * Co2Values[i] <= Median2(Co2Values)
SomePassBoth == \E i \in CatalogRows : Affordable(i) /\ LowEmitter(i)
\* The catalog rows handed to scoring.
Survivors == {response.results[k].index : k \in DOMAIN response.results}

WithinRange(v, den) == 0 <= v /\ v <= 100 * den

C2_WeightsResolved ==
    response.resolved # None =>
        /\ The(response.resolved).den > 0
        /\ The(response.resolved).co2 >= 0
        /\ The(response.resolved).cost >= 0
        /\ The(response.resolved).risk >= 0
        /\ The(response.resolved).co2 + The(response.resolved).cost
           + The(response.resolved).risk = The(response.resolved).den

\* A negative co2 weight with a cost weight of 0.9 resolves to 0, 0.9 and 0.1.
C2_Witness ==
    /\ request.weights =
          Some([k \in {"co2", "cost"} |-> IF k = "co2" THEN Frac(-50) ELSE Frac(90)])
    /\ response.resolved = Some([co2 |-> 0, cost |-> 9, risk |-> 1, den |-> 10])

\* C3: the returned list is sorted by rankingScore descending: each candidate
\* ranks at least as high as the one after it.
C3_SortedDescending ==
    Listed =>
        \A k \in 1..(Len(response.recs) - 1) :
            response.recs[k].rankingScore >= response.recs[k + 1].rankingScore

\* The scored rows came in ascending order and the list went out descending.
C3_Witness ==
    /\ Listed
    /\ Len(response.results) >= 2
    /\ response.results[1].rankingScore < response.results[2].rankingScore
    /\ response.recs[1].rankingScore > response.recs[2].rankingScore

\* C4 as stated: the caller may override N, and the call then returns at most N
\* candidates.
C4_Original ==
    (~Idle /\ request.extra_args # <<>>) =>
        /\ Listed
        /\ Len(response.recs) <= request.extra_args[1]

\* C4 amended: N is fixed at five.  A returned list holds the five survivors that
\* rank highest (all of them when there are fewer), and a call that passes an N
\* raises.
C4_TopFive ==
    /\ Listed =>
        /\ Len(response.recs) = Min(TopN, Len(response.results))
        /\ \A k \in DOMAIN response.recs :
              \E j \in DOMAIN response.results : response.results[j] = response.recs[k]
        /\ \A j \in DOMAIN response.results :
              (\A k \in DOMAIN response.recs :
                    response.recs[k].index # response.results[j].index)
              => \A k \in DOMAIN response.recs :
                    response.results[j].rankingScore <= response.recs[k].rankingScore
    /\ (~Idle /\ request.extra_args # <<>>) => response.kind = "raised"

\* Six survivors, five returned, the one left out ranking strictly below them.
C4_Witness ==
    /\ Listed
    /\ Len(response.results) > TopN
    /\ Len(response.recs) = TopN
    /\ \E j \in DOMAIN response.results :
          /\ \A k \in DOMAIN response.recs :
                response.recs[k].index # response.results[j].index
          /\ response.results[j].rankingScore < response.recs[TopN].rankingScore

\* C5: every candidate of the output passed the feasibility filter: its clamped
\* predicted cost is at most maxBudget and, unless no material satisfied both
\* conditions, its predicted CO2 is at most the median over the whole catalog.
C5_OutputPassedFilter ==
    Listed =>
        \A k \in DOMAIN response.recs :
            /\ response.recs[k].predictedCost <= The(request.product).maxBudget
            /\ SomePassBoth =>
                  2 * response.recs[k].predictedCO2 <= Median2(Co2Values)

\* One row passes both conditions and is returned; the other is over budget.
C5_Witness ==
    /\ Listed
    /\ SomePassBoth
    /\ Len(response.recs) = 1
    /\ \E i \in CatalogRows : ~Affordable(i) /\ LowEmitter(i)

\* C6: when no material is both within the budget and at most the CO2 median, the
\* surviving set is exactly the set of materials within the budget.
C6_FallbackBudgetOnly ==
    (Listed /\ ~SomePassBoth) =>
        Survivors = {i \in CatalogRows : Affordable(i)}

\* The fallback kept an affordable row above the median and dropped a row over
\* the budget.
C6_Witness ==
    /\ Listed
    /\ ~SomePassBoth
    /\ \E i \in Survivors : ~LowEmitter(i)
    /\ \E i \in CatalogRows : ~Affordable(i) /\ i \notin Survivors

\* C7 as stated: every material whose predicted cost is within the budget is in
\* the surviving set.
C7_Original ==
    Listed => \A i \in CatalogRows : Affordable(i) => i \in Survivors

\* C7 amended: an affordable material is eliminated only when its predicted CO2 is
\* above the catalog median and some material passes both conditions; when any
\* material is affordable the surviving set is not empty.
C7_AffordableDroppedOnlyAboveMedian ==
    Listed =>
        /\ \A i \in CatalogRows :
              (Affordable(i) /\ i \notin Survivors) =>
                  (~LowEmitter(i) /\ \E j \in Survivors : LowEmitter(j))
        /\ (\E i \in CatalogRows : Affordable(i)) => Survivors # {}

\* An affordable row above the median was eliminated while another survived.
C7_Witness ==
    /\ Listed
    /\ Survivors # {}
    /\ \E i \in CatalogRows : Affordable(i) /\ ~LowEmitter(i) /\ i \notin Survivors

\* C8 as stated: with every predicted cost over the budget, or an empty catalog,
\* recommend returns an empty list without raising and /recommend answers 200
\* with it.
C8_Original ==
    (response.kind \in {"list", "raised"} /\ AllLoaded
     /\ (The(_materials_raw) = <<>> \/ \A i \in CatalogRows : ~Affordable(i))) =>
        /\ Listed
        /\ response.recs = <<>>
        /\ request.via = "http" => response.http = Some(200)

\* The manifest, a model file or the materials source is missing.
EnvBroken == ~manifest_exists \/ ~model_files_exist \/ materials_source = None

\* C9: when the predictors or the catalog cannot be loaded, recommend raises and
\* returns no list; the outcome differs from the empty list (an exception, and
\* status 500 instead of 200 from /recommend).
C9_LoadFailureExplicit ==
    (response.kind \in {"list", "raised"} /\ EnvBroken) =>
        /\ response.kind = "raised"
        /\ response.error = Some("RuntimeError")
        /\ response.recs = <<>>
        /\ response.results = <<>>
        /\ request.via = "http" => response.http = Some(500)

\* /recommend answered 500: both pipelines were loaded and the catalog was not.
C9_Witness ==
    /\ response.kind = "raised"
    /\ request.via = "http"
    /\ response.http = Some(500)
    /\ manifest_exists /\ model_files_exist /\ materials_source = None
    /\ _cost_model # None /\ _materials_raw = None

\* C10 as stated, for a service whose catalog has rows: a product with a
\* malformed field is rejected before any computation: the call yields an error,
\* no list, and neither prediction nor scoring nor ranking runs.
C10_Original ==
    (/\ request.product # None
     /\ ~ProductRequestValid(The(request.product))
     /\ AllLoaded
     /\ The(_materials_raw) # <<>>) =>
        /\ response.kind \in {"rejected", "raised"}
        /\ response.recs = <<>>
        /\ \A k \in DOMAIN response.invoked :
              response.invoked[k] \notin {"predict", "_compute_indices_and_scores",
                                         "sort"}

\* The weight the caller's dict gives for key, in hundredths: the default when
\* the key is absent, 0 when the value is negative.
Supplied(key, default) ==
    Max(0, Get(The(request.weights), key, default).n)

\* C15: when the caller's co2 and cost weights (negative values counted as 0, an
\* absent key as its default) sum to more than 1, each is divided by their sum:
\* the resolved co2 and cost weights sum to 1 and keep the proportion of the
\* supplied ones, and the risk weight is 0; {co2: 0.9, cost: 0.9} resolves to
\* {co2: 0.5, cost: 0.5, risk: 0}.
C15_RescaledProportionally ==
    (/\ response.resolved # None
     /\ request.weights # None
     /\ Supplied("co2", DefaultCo2Weight) + Supplied("cost", DefaultCostWeight) > 100) =>
        /\ The(response.resolved).risk = 0
        /\ The(response.resolved).co2 + The(response.resolved).cost
           = The(response.resolved).den
        /\ The(response.resolved).co2 * Supplied("cost", DefaultCostWeight)
           = The(response.resolved).cost * Supplied("co2", DefaultCo2Weight)
        /\ (Supplied("co2", DefaultCo2Weight) = 90
            /\ Supplied("cost", DefaultCostWeight) = 90) =>
               /\ 2 * The(response.resolved).co2 = The(response.resolved).den
               /\ 2 * The(response.resolved).cost = The(response.resolved).den

\* {co2: 1.5, cost: 0.2} was resolved: 15/17, 2/17 and no risk weight.
C15_Witness ==
    /\ request.weights =
          Some([k \in {"co2", "cost"} |-> IF k = "co2" THEN Frac(150) ELSE Frac(20)])
    /\ response.resolved = Some([co2 |-> 15, cost |-> 2, risk |-> 0, den |-> 17])

\* The survivors share one predicted cost (one predicted CO2).
SameCost == \A i, j \in Survivors : CostValues[i] = CostValues[j]
SameCo2 == \A i, j \in Survivors : Co2Values[i] = Co2Values[j]

\* C16: when every survivor has the same predicted cost, a single survivor
\* included, the cost efficiency index of every candidate is exactly 50, and the
\* same for the predicted CO2 and the CO2 impact index; the denominator of the
\* indices is never 0.
C16_FlatSeriesGivesFifty ==
    Listed =>
        \A k \in DOMAIN response.recs :
            /\ response.recs[k].den > 0
            /\ SameCost =>
                  response.recs[k].costEfficiencyIndex = 50 * response.recs[k].den
            /\ SameCo2 =>
                  response.recs[k].co2ImpactIndex = 50 * response.recs[k].den

\* Two survivors of one predicted CO2 and different predicted costs: their CO2
\* index is 50 and their cost indices are 0 and 100.
C16_Witness ==
    /\ Listed
    /\ Len(response.recs) = 2
    /\ SameCo2 /\ ~SameCost
    /\ \A k \in DOMAIN response.recs :
          response.recs[k].co2ImpactIndex = 50 * response.recs[k].den
    /\ \E k \in DOMAIN response.recs : response.recs[k].costEfficiencyIndex = 0

\* The functions recommend called, as a set.
Invoked == {response.invoked[k] : k \in DOMAIN response.invoked}

\* No row passes the filter or its budget-only relaxation.
NoneAffordable == \A i \in CatalogRows : ~Affordable(i)

\* C20 as stated: when the filter and its relaxation leave no row, recommend
\* returns an empty list and has called neither the index/score calculator nor
\* the explanation builders.
C20_Original ==
    (Listed /\ NoneAffordable) =>
        /\ response.recs = <<>>
        /\ Invoked \cap {"_compute_indices_and_scores", "_build_reason",
                          "_build_detailed_explanation"} = {}

\* C20: when the filter and its relaxation leave no row, recommend returns an
\* empty list without calling the explanation builders; the index/score
\* calculator is called, on the frame of zero rows, and scores nothing.
C20_EmptySetNotExplained ==
    (Listed /\ NoneAffordable) =>
        /\ response.recs = <<>>
        /\ response.results = <<>>
        /\ "_compute_indices_and_scores" \in Invoked
        /\ Invoked \cap {"_build_reason", "_build_detailed_explanation"} = {}

\* Two rows, both predicted above the budget of 1: the list is empty.
C20_Witness ==
    /\ Listed
    /\ Len(request.pred_cost) = 2
    /\ NoneAffordable
    /\ The(request.product).maxBudget = 1
    /\ response.recs = <<>>

\* C18 as stated: the confidence of every candidate equals its suitability score
\* (the confidence is in tenths, the score a numerator over den).
C18_Original ==
    Listed =>
        \A k \in DOMAIN response.recs :
            response.recs[k].confidenceScore * response.recs[k].den
            = 10 * response.recs[k].suitabilityScore

\* C18: the confidence of every candidate is a number of tenths within [0, 100]
\* and the nearest such number to its suitability score: the two differ by at
\* most 0.05.
C18_ConfidenceIsRoundedSuitability ==
    Listed =>
        \A k \in DOMAIN response.recs :
            /\ response.recs[k].confidenceScore \in 0..1000
            /\ 2 * Abs(response.recs[k].confidenceScore * response.recs[k].den
                       - 10 * response.recs[k].suitabilityScore)
               <= response.recs[k].den

\* A candidate whose suitability score has more than one decimal and was rounded
\* up, beside one whose confidence is its score.
C18_Witness ==
    /\ Listed
    /\ \E k \in DOMAIN response.recs :
          response.recs[k].confidenceScore * response.recs[k].den
          > 10 * response.recs[k].suitabilityScore
    /\ \E k \in DOMAIN response.recs :
          response.recs[k].confidenceScore * response.recs[k].den
          = 10 * response.recs[k].suitabilityScore

\* Scenario A: a budget of 10, default weights, A predicted at 5 USD and 2 kg,
\* B at 8 USD and 1 kg.
ScenarioA ==
    /\ response.kind \in {"list", "raised"}
    /\ The(request.product).maxBudget = 10
    /\ request.weights = None
    /\ request.pred_cost = <<5, 8>>
    /\ request.pred_co2 = <<2, 1>>

\* The candidates of the output built from catalog row i.
RecsOf(i) == {k \in DOMAIN response.recs : response.recs[k].index = i}

\* C14 as stated: in scenario A both A and B appear in the output, B's CO2 index
\* is greater than A's and A's cost index is greater than B's.
C14_Original ==
    ScenarioA =>
        /\ Listed
        /\ \E a \in RecsOf(1), b \in RecsOf(2) :
              /\ response.recs[b].co2ImpactIndex > response.recs[a].co2ImpactIndex
              /\ response.recs[a].costEfficiencyIndex
                 > response.recs[b].costEfficiencyIndex

\* C14: in scenario A both materials are within the budget, A (2 kg) is above
\* the median CO2 of 1.5 kg and is filtered out, and B alone appears in the
\* output, with a CO2 index and a cost index of 50.
C14_ScenarioAKeepsB ==
    ScenarioA =>
        /\ Listed
        /\ Affordable(1) /\ Affordable(2)
        /\ RecsOf(1) = {}
        /\ Len(response.recs) = 1
        /\ \A b \in RecsOf(2) :
              /\ response.recs[b].co2ImpactIndex = 50 * response.recs[b].den
              /\ response.recs[b].costEfficiencyIndex = 50 * response.recs[b].den

\* Scenario A was run and returned one candidate, built from row 2.
C14_Witness ==
    /\ ScenarioA
    /\ Listed
    /\ RecsOf(2) = {1}

\* The integer x.q + x.r / d, a hundred times: quotient and remainder again.
Shift2(x, d) == [q |-> 100 * x.q + (100 * x.r) \div d, r |-> (100 * x.r) % d]

RoundOf(x, d) == HalfEven(x.q, 2 * x.r, d)

\* round(n / d, 4), in ten-thousandths (n >= 0, d > 0)
Round4(n, d) == RoundOf(Shift2(Shift2([q |-> n \div d, r |-> n % d], d), d), d)

\* C19 as stated: of two candidates whose ranking scores are equal after
\* rounding to 4 decimal places, the one built from the earlier catalog row
\* comes first in the output.
C19_Original ==
    Listed =>
        \A k, l \in DOMAIN response.recs :
            (/\ k < l
             /\ Round4(response.recs[k].rankingScore, response.recs[k].den)
                = Round4(response.recs[l].rankingScore, response.recs[l].den)) =>
                response.recs[k].index < response.recs[l].index

\* C19: of two candidates whose ranking scores are exactly equal, the one built
\* from the earlier catalog row comes first in the output; the scores are
\* compared as they are, without rounding.
C19_ExactTiesKeepCatalogOrder ==
    Listed =>
        \A k, l \in DOMAIN response.recs :
            (/\ k < l
             /\ response.recs[k].rankingScore = response.recs[l].rankingScore) =>
                response.recs[k].index < response.recs[l].index

\* Sturdy and Flimsy, of different suitability and cost index, tie on the
\* ranking score.
C19_Witness ==
    /\ Listed
    /\ request.weights = TieWeights
    /\ Len(response.recs) = 2
    /\ response.recs[1].rankingScore = response.recs[2].rankingScore
    /\ response.recs[1].suitabilityScore # response.recs[2].suitabilityScore
    /\ response.recs[1].materialName = "Sturdy"
    /\ response.recs[2].materialName = "Flimsy"

SurvivorsBefore ==
    {The(previous).response.results[k].index :
        k \in DOMAIN The(previous).response.results}

\* The entry of results built from catalog row i.
EntryOf(results, i) == results[CHOOSE k \in DOMAIN results : results[k].index = i]

\* Row i is the one whose predicted CO2 is higher in this run than in the run
\* before, and it was scored in both.
RaisedAndScoredTwice(i) ==
    /\ Co2Values[i] > Max(The(previous).request.pred_co2[i], 0)
    /\ i \in Survivors
    /\ i \in SurvivorsBefore

\* The ranking score of row i is no higher in this run than in the run before.
RankingNotHigher(now, before) ==
    now.rankingScore * before.den <= before.rankingScore * now.den

\* C13 as stated: of two runs that differ in the predicted CO2 of one material
\* alone, that material scored in both, the run with the higher prediction
\* gives the material no higher a ranking score.
C13_Original ==
    (previous # None /\ Listed) =>
        \A i \in CatalogRows :
            RaisedAndScoredTwice(i) =>
                RankingNotHigher(EntryOf(response.results, i),
                                 EntryOf(The(previous).response.results, i))

\* C13: of two runs that differ in the predicted CO2 of one material alone and
\* score the same set of materials, that material among them, the run with the
\* higher prediction gives the material no higher a ranking score.
C13_MonotoneOverSameSurvivors ==
    (previous # None /\ Listed) =>
        \A i \in CatalogRows :
            (RaisedAndScoredTwice(i) /\ Survivors = SurvivorsBefore) =>
                RankingNotHigher(EntryOf(response.results, i),
                                 EntryOf(The(previous).response.results, i))

\* Two runs over the same two survivors of three rows: the raised material's
\* ranking score is strictly lower in the second.
C13_Witness ==
    /\ previous # None
    /\ Listed
    /\ Survivors = SurvivorsBefore
    /\ \E i \in CatalogRows :
          /\ RaisedAndScoredTwice(i)
          /\ Cardinality(Survivors) = 2
          /\ ~RankingNotHigher(EntryOf(The(previous).response.results, i),
                               EntryOf(response.results, i))

\* C11 as stated: however the first calls of load_models interleave, each of
\* the three handles is loaded at most once, exactly once when every call has
\* returned, and a call that has returned finds the three handles loaded.
C11_Original ==
    /\ loads.cost <= 1 /\ loads.co2 <= 1 /\ loads.materials <= 1
    /\ \A t \in DOMAIN pc : pc[t] = "done" => AllLoaded
    /\ (pc # <<>> /\ \A t \in DOMAIN pc : pc[t] = "done") =>
          loads = [cost |-> 1, co2 |-> 1, materials |-> 1]

\* A raw prediction that is negative or NaN.
NotPositive(raw) == raw = NaN \/ raw < 0

\* C17 as stated: every candidate's predictedCost and predictedCO2 are numbers
\* and at least 0 whatever the regressors returned, and are 0 where the raw
\* prediction was negative or NaN.
C17_Original ==
    Listed =>
        \A k \in DOMAIN response.recs :
            /\ AtMost(0, response.recs[k].predictedCost)
            /\ AtMost(0, response.recs[k].predictedCO2)
            /\ NotPositive(request.pred_cost[response.recs[k].index]) =>
                  response.recs[k].predictedCost = 0
            /\ NotPositive(request.pred_co2[response.recs[k].index]) =>
                  response.recs[k].predictedCO2 = 0

\* The catalog row candidate k was built from, and the product's requirement.
RowOf(k) == The(_materials_raw)[response.recs[k].index]
Requirement(key) == Get(The(request.product), key, DefaultRequirement)

\* The four constraint flags of candidate k, from the catalog and the product.
StrengthShort(k) ==
    IF RowOf(k).StrengthRating < Requirement("fragility") THEN 1 ELSE 0
MoistureShort(k) ==
    IF RowOf(k).MoistureBarrier < Requirement("moistureReq") THEN 1 ELSE 0
OxygenShort(k) ==
    IF RowOf(k).OxygenBarrier < Requirement("oxygenSensitivity") THEN 1 ELSE 0
OverBudget(k) ==
    IF RowOf(k).CostPerKG_USD * Get(The(request.product), "weightKg", DefaultWeightKg)
       > Get(The(request.product), "maxBudget", DefaultBudget)
    THEN 1 ELSE 0

PenaltyOf(k) ==
    25 * StrengthShort(k) + 20 * MoistureShort(k) + 20 * OxygenShort(k)
    + 25 * OverBudget(k)

\* base of candidate k, times the denominators of the weights and of the scores.
BaseOf(k) ==
    The(response.resolved).co2 * response.recs[k].co2ImpactIndex
    + The(response.resolved).cost * response.recs[k].costEfficiencyIndex
    + The(response.resolved).risk * (100 - 25 * StrengthShort(k))
      * response.recs[k].den

\* C21: the suitability score of every candidate is clip(base - penalty, 0, 100),
\* base being the three weights applied to the CO2 index, the cost index and
\* 100 - 25 * is_strength_insufficient, and penalty 25, 20, 20 and 25 for the
\* four flags; base lies within [0, 100], so the clip that the code applies to
\* it before the subtraction changes nothing.
C21_SuitabilityFormula ==
    Listed =>
        \A k \in DOMAIN response.recs :
            /\ BaseOf(k) >= 0
            /\ BaseOf(k) <= 100 * The(response.resolved).den * response.recs[k].den
            /\ response.recs[k].suitabilityScore * The(response.resolved).den
               = Clip(BaseOf(k) - PenaltyOf(k) * The(response.resolved).den
                                  * response.recs[k].den,
                      0, 100 * The(response.resolved).den * response.recs[k].den)

\* A candidate with caller-supplied weights, a risk weight above 0, the strength
\* flag set and a suitability strictly between 0 and 100.
C21_Witness ==
    /\ Listed
    /\ request.weights # None
    /\ The(response.resolved).risk > 0
    /\ \E k \in DOMAIN response.recs :
          /\ StrengthShort(k) = 1
          /\ PenaltyOf(k) = 45
          /\ response.recs[k].suitabilityScore > 0
          /\ response.recs[k].suitabilityScore < 100 * response.recs[k].den

\* The sum of the CO2 index and the cost index of candidate k.
IndexSum(k) == response.recs[k].co2ImpactIndex + response.recs[k].costEfficiencyIndex

\* C22: the ranking score of every candidate is
\* clip(0.60 * suitability + 0.20 * CO2 index + 0.20 * cost index, 0, 100),
\* whatever weights the caller gave; of two candidates of equal suitability,
\* the one listed first has the greater or equal sum of indices.
C22_RankingFormula ==
    Listed =>
        /\ \A k \in DOMAIN response.recs :
              5 * response.recs[k].rankingScore
              = Clip(3 * response.recs[k].suitabilityScore + IndexSum(k),
                     0, 500 * response.recs[k].den)
        /\ \A k, l \in DOMAIN response.recs :
              (/\ k < l
               /\ response.recs[k].suitabilityScore
                  = response.recs[l].suitabilityScore) =>
                 IndexSum(k) >= IndexSum(l)

\* Two candidates scored with caller-supplied weights, of one suitability above
\* 0 and different sums of indices; the second catalog row is listed first.
C22_Witness ==
    /\ Listed
    /\ request.weights # None
    /\ Len(response.recs) = 2
    /\ response.recs[1].suitabilityScore = response.recs[2].suitabilityScore
    /\ response.recs[1].suitabilityScore > 0
    /\ IndexSum(1) > IndexSum(2)
    /\ response.recs[1].index = 2

\* The place of each tag in the fixed order; the default phrase has none.
TagRank ==
    [t \in {"Low CO2 footprint", "Cost efficient", "Over budget",
            "Strength may be insufficient"} |->
        CASE t = "Low CO2 footprint" -> 1
          [] t = "Cost efficient" -> 2
          [] t = "Over budget" -> 3
          [] t = "Strength may be insufficient" -> 4]

DefaultPhrase == "Optimised for sustainability and cost."

\* The parts of the reason of candidate k, as a set.
ReasonParts(k) ==
    {response.recs[k].reason[a] : a \in DOMAIN response.recs[k].reason}

\* The tags whose rule holds for candidate k.
TagsDue(k) ==
    (IF response.recs[k].co2ImpactIndex >= 70 * response.recs[k].den
     THEN {"Low CO2 footprint"} ELSE {})
    \cup (IF response.recs[k].costEfficiencyIndex >= 70 * response.recs[k].den
          THEN {"Cost efficient"} ELSE {})
    \cup (IF OverBudget(k) = 1 THEN {"Over budget"} ELSE {})
    \cup (IF StrengthShort(k) = 1 THEN {"Strength may be insufficient"} ELSE {})

\* C23: the reason of every candidate holds exactly the tags whose rule holds
\* (CO2 index >= 70, cost index >= 70, over-budget flag, strength flag), each
\* once and in that order; it is the default phrase alone if and only if no
\* rule holds.
C23_ReasonTags ==
    Listed =>
        \A k \in DOMAIN response.recs :
            IF TagsDue(k) = {}
            THEN response.recs[k].reason = <<DefaultPhrase>>
            ELSE /\ ReasonParts(k) = TagsDue(k)
                 /\ \A a, b \in DOMAIN response.recs[k].reason :
                       a < b => TagRank[response.recs[k].reason[a]]
                                < TagRank[response.recs[k].reason[b]]

\* One candidate with the default phrase beside one tagged cost efficient, over
\* budget and short of strength.
C23_Witness ==
    /\ Listed
    /\ \E k \in DOMAIN response.recs : response.recs[k].reason = <<DefaultPhrase>>
    /\ \E k \in DOMAIN response.recs :
          response.recs[k].reason
          = <<"Cost efficient", "Over budget", "Strength may be insufficient">>

\* The frame _compute_indices_and_scores returned in the call.
ScoredNow ==
    ScoredFrame(The(request.product), request.weights, The(_materials_raw),
                request.pred_cost, request.pred_co2)

\* The record holds the predictions, indices and scores of the scored row.
SameAsScored(rec, row) ==
    /\ rec.predictedCost = row.predicted_cost_unit_usd
    /\ rec.predictedCO2 = row.predicted_co2_unit_kg
    /\ rec.co2ImpactIndex = row.CO2ImpactIndex
    /\ rec.costEfficiencyIndex = row.CostEfficiencyIndex
    /\ rec.suitabilityScore = row.MaterialSuitabilityScore
    /\ rec.rankingScore = row.RankingScore
    /\ rec.den = row.den

\* Every record of the result holds the values of its row in scored.
EmittedFrom(scored) ==
    \A k \in DOMAIN response.recs :
        \E j \in DOMAIN scored :
            /\ scored[j].material.index = response.recs[k].index
            /\ SameAsScored(response.recs[k], scored[j])

\* C24: every record of the result, built after the reason and the explanation
\* of its row, holds the predictions, the two indices, the suitability score and
\* the ranking score that _compute_indices_and_scores computed for that row.
C24_ExplanationLeavesScores == Listed => EmittedFrom(ScoredNow)

\* Two records with different reasons, explanations and ranking scores.
C24_Witness ==
    /\ Listed
    /\ Len(response.recs) = 2
    /\ response.recs[1].reason # response.recs[2].reason
    /\ response.recs[1].explanation.cost = "within"
    /\ response.recs[2].explanation.cost = "exceeds"
    /\ response.recs[2].explanation.strength = "below"
    /\ response.recs[1].rankingScore > response.recs[2].rankingScore
    /\ response.recs[2].suitabilityScore # response.recs[2].rankingScore

\* ------------------------------------------------------------------ C25

\* The cell of column c at catalog row i, a missing one (no such column, or an
\* empty cell) read as 0.
ZeroIfMissing(i, c) ==
    FillZero(Column(The(_materials_raw)[i], c))

\* _build_inference_frame raised.
FrameRaised ==
    /\ response.kind = "raised"
    /\ response.invoked = <<"load_models", "_build_inference_frame">>

\* The gaps and flags of scored row m are those of catalog row i with every
\* missing numeric field read as 0.
GapsAsIfZero(m, i) ==
    /\ m.strength_gap = ZeroIfMissing(i, "StrengthRating") - Requirement("fragility")
    /\ m.moisture_gap = ZeroIfMissing(i, "MoistureBarrier") - Requirement("moistureReq")
    /\ m.oxygen_gap
       = ZeroIfMissing(i, "OxygenBarrier") - Requirement("oxygenSensitivity")
    /\ m.budget_gap
       = Get(The(request.product), "maxBudget", DefaultBudget)
         - ZeroIfMissing(i, "CostPerKG_USD")
           * Get(The(request.product), "weightKg", DefaultWeightKg)
    /\ m.is_strength_insufficient = Negative(m.strength_gap)
    /\ m.is_moisture_insufficient = Negative(m.moisture_gap)
    /\ m.is_oxygen_insufficient = Negative(m.oxygen_gap)
    /\ m.is_over_budget = Negative(m.budget_gap)

AllGapsAsIfZero(scored) ==
    \A j \in DOMAIN scored :
        GapsAsIfZero(scored[j].material, scored[j].material.index)

\* C25 as stated: on a catalog whose rows lack StrengthRating, MoistureBarrier,
\* OxygenBarrier or CostPerKG_USD, or hold NaN there, _build_inference_frame and
\* the gap computation of recommend complete, and every gap and flag of the
\* scoring frame is the one of the row with each missing field read as 0.
C25_Original ==
    /\ ~FrameRaised
    /\ Listed => AllGapsAsIfZero(ScoredNow)

\* ------------------------------------------------------------------ C27

\* More than rpm calls have returned within some window of 60 seconds.
WindowOverrun ==
    \E i \in DOMAIN returned :
        /\ i + gemini_limiter.rpm \in DOMAIN returned
        /\ returned[i + gemini_limiter.rpm] - returned[i] < Minute

\* C27 as stated: no more than rpm calls have returned within any 60 seconds,
\* and a call that found rpd requests recorded in the last 24 hours raised and
\* recorded nothing, so that no more than rpd requests are recorded and no more
\* than rpd calls have returned within the day.
C27_Original ==
    /\ ~WindowOverrun
    /\ Len(gemini_limiter.day_requests) <= gemini_limiter.rpd
    /\ clock < Day => Len(returned) <= gemini_limiter.rpd

\* ------------------------------------------------------------------ C26

\* The handles and the catalog are set: a load has succeeded.
LoadedBefore == AllLoaded

\* A recommend call returns its list in this step.
CallReturnsList == Idle /\ request'.after # None

NoneFlaggedOverBudget(scored) ==
    \A j \in DOMAIN scored : scored[j].material.is_over_budget = 0

\* The tags of candidate k's reason.
TagsOf(k) == {response.recs[k].reason[a] : a \in DOMAIN response.recs[k].reason}

\* C28 as stated: every candidate returned by recommend has is_over_budget = 0
\* and a reason without "Over budget".
C28_Original ==
    Listed =>
        /\ NoneFlaggedOverBudget(ScoredNow)
        /\ \A k \in DOMAIN response.recs : "Over budget" \notin TagsOf(k)

\* ------------------------------------------------------------------ C29

\* The stored weight (a fraction n/d) is the resolved one, num/den.
SameFraction(stored, num, den) == The(stored).n * den = num * The(stored).d

\* POST /recommend was answered with a list for a user whose preferences were
\* saved.
ScoredForSavedUser ==
    /\ request.via = "http"
    /\ Listed
    /\ user # NoPreferences

\* C29 as stated: the co2, cost and risk weights /recommend scores with are the
\* user's weight_co2, weight_cost and weight_risk as update_preferences stored
\* and returned them.
C29_Original ==
    ScoredForSavedUser =>
        /\ SameFraction(user.weight_co2, The(response.resolved).co2,
                        The(response.resolved).den)
        /\ SameFraction(user.weight_cost, The(response.resolved).cost,
                        The(response.resolved).den)
        /\ SameFraction(user.weight_risk, The(response.resolved).risk,
                        The(response.resolved).den)

\* ------------------------------------------------------------------ C30

\* None of the three handles is None.
NoHandleMissing ==
    /\ _cost_model # None
    /\ _co2_model # None
    /\ _materials_raw # None

\* Both pipelines are loaded and the catalog is not: a load failed part-way.
LoadedPartWay ==
    /\ _cost_model # None
    /\ _co2_model # None
    /\ _materials_raw = None

\* C30: a call of load_models returns to its caller only with the three handles
\* set; a call that finds a handle missing, as after a load that failed
\* part-way, goes on to load again instead of returning, and a call that finds
\* the three handles set returns without assigning any of them.
C30_AllOrNothing ==
    [][\A t \in Threads :
          /\ pc'[t] = "done" => NoHandleMissing'
          /\ (pc[t] = "check" /\ pc'[t] # "check") =>
                IF NoHandleMissing
                THEN /\ pc'[t] = "done"
                     /\ loads' = loads
                     /\ _materials_raw' = _materials_raw
                ELSE pc'[t] = "manifest"]_vars

\* One call has raised in the catalog load, leaving both pipelines set, and a
\* later call has passed the test at the top and is loading again.
C30_Witness ==
    /\ LoadedPartWay
    /\ loads = [cost |-> 1, co2 |-> 1, materials |-> 0]
    /\ \E t \in Threads, u \in Threads :
          /\ pc[t] = "raised"
          /\ pc[u] = "manifest"
====
